---- MODULE Spec2Model ----
(***************************************************************************)
(* A model of the langsmithgo dataset client (src/dataset.go) and of the   *)
(* wire types it encodes and decodes (src/contracts.go).                   *)
(*                                                                         *)
(* Go strings are TLA+ strings; fmt.Sprintf and + are \o.  A Go error is a *)
(* record [isNil, kind, msg]: kind names the place the error comes from    *)
(* (the Go values are plain errors, the kind is what the caller would see  *)
(* from the message).  A panic is an outcome of its own.                   *)
(***************************************************************************)
EXTENDS Integers, Sequences, FiniteSets, TLC

VARIABLES
    envKey,     \* the LANGSMITH_API_KEY environment variable
    envUrl,     \* the LANGSMITH_URL environment variable
    ctorPc,     \* position of the running NewDatasetClient call
    ctorUrl,    \* NewDatasetClient's local variable url
    newRet,     \* what the last NewDatasetClient call returned
    client,     \* the DatasetClient the program holds (NoClient: none)
    call,       \* the last public operation called on client, and its outcome
    lt,         \* a LangsmithTime value being encoded
    wire,       \* the bytes LangsmithTime.MarshalJSON produced
    decoded     \* the outcome of LangsmithTime.UnmarshalJSON

vars == <<envKey, envUrl, ctorPc, ctorUrl, newRet, client, call, lt, wire, decoded>>

clientVars == <<envKey, envUrl, ctorPc, ctorUrl, newRet, client, call>>
timeVars == <<lt, wire, decoded>>

(***************************************************************************)
(* Strings                                                                 *)
(***************************************************************************)

\* strings.HasPrefix
HasPrefix(s, p) == Len(s) >= Len(p) /\ SubSeq(s, 1, Len(p)) = p

\* net/url: a URL holding an ASCII control byte does not parse
ContainsCTL(s) == \E i \in 1..Len(s) : SubSeq(s, i, i) \in {"\n", "\t", "\r"}

(***************************************************************************)
(* Errors                                                                  *)
(***************************************************************************)

NilErr == [isNil |-> TRUE, kind |-> "", msg |-> ""]

Err(kind, msg) == [isNil |-> FALSE, kind |-> kind, msg |-> msg]

(***************************************************************************)
(* The environment and NewDatasetClient                                    *)
(***************************************************************************)

BASE_URL == "https://api.smith.langchain.com/api/v1"

Unset == [set |-> FALSE, val |-> ""]

EnvSet(v) == [set |-> TRUE, val |-> v]

\* os.Getenv: the value, "" when the variable is not set
Getenv(e) == IF e.set THEN e.val ELSE ""

KeyValues == {"", "key-A"}

UrlValues == {"", "http://localhost:1984/api/v1"}

EnvKeys == {Unset} \cup {EnvSet(v) : v \in KeyValues}

EnvUrls == {Unset} \cup {EnvSet(v) : v \in UrlValues}

NoClient == [isNil |-> TRUE, APIKey |-> "", baseUrl |-> ""]

\* &DatasetClient{baseClient{APIKey, baseUrl}}
baseClient(key, url) == [isNil |-> FALSE, APIKey |-> key, baseUrl |-> url]

NoRet == [returned |-> FALSE, client |-> NoClient, err |-> NilErr]

CtorRet(c, e) == [returned |-> TRUE, client |-> c, err |-> e]

(***************************************************************************)
(* LangsmithTime: the wire format of timestamps                            *)
(*                                                                         *)
(* A time.Time is an instant and a location: [day, sod, nsec, off] is the  *)
(* instant as a day number from 1970-01-01 (UTC), the second of that day   *)
(* and the nanosecond of that second, and off the location's offset in     *)
(* seconds east of UTC.                                                    *)
(***************************************************************************)

langsmithTimeFormat == "2006-01-02T15:04:05"

Time(day, sod, nsec, off) == [day |-> day, sod |-> sod, nsec |-> nsec, off |-> off]

\* time.Time{}: January 1, year 1, 00:00:00 UTC
ZeroTime == Time(-719162, 0, 0, 0)

Digits == <<"0", "1", "2", "3", "4", "5", "6", "7", "8", "9">>

IsDigit(c) == \E i \in 1..10 : Digits[i] = c

DigitVal(c) == (CHOOSE i \in 1..10 : Digits[i] = c) - 1

RECURSIVE DecStr(_)
\* the decimal digits of n >= 0
DecStr(n) == IF n < 10 THEN Digits[n + 1] ELSE DecStr(n \div 10) \o Digits[(n % 10) + 1]

RECURSIVE Zeros(_)
Zeros(k) == IF k <= 0 THEN "" ELSE "0" \o Zeros(k - 1)

\* time.appendInt: n in decimal, zero-padded to at least width digits
AppendInt(n, width) ==
    IF n < 0 THEN "-" \o Zeros(width - Len(DecStr(-n))) \o DecStr(-n)
    ELSE Zeros(width - Len(DecStr(n))) \o DecStr(n)

\* the civil date [y, m, d] of a day number (proleptic Gregorian calendar)
CivilFromDays(z0) ==
    LET z == z0 + 719468
        era == z \div 146097
        doe == z - era * 146097
        yoe == (doe - doe \div 1460 + doe \div 36524 - doe \div 146096) \div 365
        doy == doe - (365 * yoe + yoe \div 4 - yoe \div 100)
        mp == (5 * doy + 2) \div 153
        d == doy - (153 * mp + 2) \div 5 + 1
        m == IF mp < 10 THEN mp + 3 ELSE mp - 9
        y == yoe + era * 400 + (IF m <= 2 THEN 1 ELSE 0)
    IN  [y |-> y, m |-> m, d |-> d]

\* the day number of a civil date
DaysFromCivil(y0, m, d) ==
    LET y == IF m <= 2 THEN y0 - 1 ELSE y0
        era == y \div 400
        yoe == y - era * 400
        doy == (153 * (IF m > 2 THEN m - 3 ELSE m + 9) + 2) \div 5 + d - 1
        doe == yoe * 365 + yoe \div 4 - yoe \div 100 + doy
    IN  era * 146097 + doe - 719468

IsLeap(y) == y % 4 = 0 /\ (y % 100 # 0 \/ y % 400 = 0)

DaysIn(m, y) ==
    IF m = 2 THEN (IF IsLeap(y) THEN 29 ELSE 28)
    ELSE IF m \in {4, 6, 9, 11} THEN 30 ELSE 31

\* time.Time.Format(langsmithTimeFormat): the wall clock of t in t's own
\* location, to the second; the layout has no zone and no fraction
Format(t) ==
    LET wall == t.sod + t.off
        day == t.day + wall \div 86400
        sod == wall % 86400
        c == CivilFromDays(day)
    IN  AppendInt(c.y, 4) \o "-" \o AppendInt(c.m, 2) \o "-" \o AppendInt(c.d, 2)
        \o "T" \o AppendInt(sod \div 3600, 2) \o ":" \o AppendInt((sod % 3600) \div 60, 2)
        \o ":" \o AppendInt(sod % 60, 2)

\* the number written by the digits s[from..to]; -1 when one is no digit
Atoi(s, from, to) ==
    IF \E i \in from..to : ~IsDigit(SubSeq(s, i, i)) THEN -1
    ELSE LET RECURSIVE val(_)
             val(i) == IF i < from THEN 0 ELSE 10 * val(i - 1) + DigitVal(SubSeq(s, i, i))
         IN  val(to)

\* the separators of the layout are where the layout has them
Shaped(s) ==
    /\ Len(s) = 19
    /\ SubSeq(s, 5, 5) = "-" /\ SubSeq(s, 8, 8) = "-"
    /\ SubSeq(s, 11, 11) = "T"
    /\ SubSeq(s, 14, 14) = ":" /\ SubSeq(s, 17, 17) = ":"

\* the time of the fields read, in UTC, or an error when one is out of range
\* (no digit reads as -1)
Date(y, mo, d, h, mi, sec) ==
    IF /\ y >= 0 /\ mo \in 1..12 /\ d >= 1 /\ d <= DaysIn(mo, y)
       /\ h \in 0..23 /\ mi \in 0..59 /\ sec \in 0..59
    THEN [err |-> NilErr,
          t |-> Time(DaysFromCivil(y, mo, d), h * 3600 + mi * 60 + sec, 0, 0)]
    ELSE [err |-> Err("decoding", "parsing time: out of range"), t |-> ZeroTime]

\* time.Parse(langsmithTimeFormat, s): the time s names, in UTC
Parse(s) ==
    IF ~Shaped(s) THEN [err |-> Err("decoding", "parsing time"), t |-> ZeroTime]
    ELSE Date(Atoi(s, 1, 4), Atoi(s, 6, 7), Atoi(s, 9, 10),
              Atoi(s, 12, 13), Atoi(s, 15, 16), Atoi(s, 18, 19))

\* LangsmithTime.MarshalJSON: fmt.Sprintf("\"%s\"", ...Format(...)), never an error
MarshalJSON(t) == [err |-> NilErr, bytes |-> "\"" \o Format(t) \o "\""]

\* json.Unmarshal(b, &s) for a string s: a JSON string sets s, null leaves it
\* as it is, every other JSON value is an error
UnmarshalString(b, s) ==
    IF b = "null" THEN [err |-> NilErr, s |-> s]
    ELSE IF Len(b) >= 2 /\ SubSeq(b, 1, 1) = "\"" /\ SubSeq(b, Len(b), Len(b)) = "\""
    THEN [err |-> NilErr, s |-> SubSeq(b, 2, Len(b) - 1)]
    ELSE [err |-> Err("decoding", "json: cannot unmarshal into Go value of type string"),
          s |-> s]

\* *t = LangsmithTime(t2) when time.Parse gave t2 and no error
TimeParsed(t0, p) ==
    IF ~p.err.isNil THEN [status |-> "err", err |-> p.err, t |-> t0]
    ELSE [status |-> "ok", err |-> NilErr, t |-> p.t]

\* the rest of UnmarshalJSON once json.Unmarshal(b, &s) gave u: s[:19] panics
\* when s is shorter than 19 bytes
TimeOfString(t0, u) ==
    IF ~u.err.isNil THEN [status |-> "err", err |-> u.err, t |-> t0]
    ELSE IF Len(u.s) < 19 THEN [status |-> "panic", err |-> NilErr, t |-> t0]
    ELSE TimeParsed(t0, Parse(SubSeq(u.s, 1, 19)))

\* (*LangsmithTime).UnmarshalJSON on the target *t = t0: status "ok" (nil is
\* returned), "err" (an error is returned) or "panic" (s[:19] of a shorter s)
UnmarshalJSON(t0, b) == TimeOfString(t0, UnmarshalString(b, ""))

\* bounds of the timestamps tried
MaxOffsetHours == 1

NanoChoices == {0, 500000000, 999999999}

\* 1970-01-01, 1969-12-31, 2000-02-29, 2024-12-31, 9999-12-31, 0001-01-01
DayChoices == {0, -1, 11016, 20088, 2932896, -719162}

SecondChoices == {0, 45296, 86399}

Offsets == {3600 * h : h \in (-MaxOffsetHours)..MaxOffsetHours}

Times == {Time(d, s, n, o) : d \in DayChoices, s \in SecondChoices,
                             n \in NanoChoices, o \in Offsets}

NoWire == [made |-> FALSE, bytes |-> ""]

NoDecoded == [status |-> "none", err |-> NilErr, t |-> ZeroTime]

TimeInit == lt = ZeroTime /\ wire = NoWire /\ decoded = NoDecoded

\* the program picks a timestamp to send
TimePick ==
    /\ \E t \in Times : lt' = t
    /\ wire' = NoWire
    /\ decoded' = NoDecoded
    /\ UNCHANGED clientVars

\* json.Marshal of a LangsmithTime value
TimeMarshal ==
    /\ ~wire.made
    /\ wire' = [made |-> TRUE, bytes |-> MarshalJSON(lt).bytes]
    /\ UNCHANGED <<lt, decoded>>
    /\ UNCHANGED clientVars

\* json.Unmarshal of the bytes into a fresh LangsmithTime
TimeUnmarshal ==
    /\ wire.made
    /\ decoded.status = "none"
    /\ decoded' = UnmarshalJSON(ZeroTime, wire.bytes)
    /\ UNCHANGED <<lt, wire>>
    /\ UNCHANGED clientVars

TimeNext == TimePick \/ TimeMarshal \/ TimeUnmarshal

\* the JSON values handed to UnmarshalJSON: null, strings of 0, 4 and 18
\* bytes, a timestamp of 19 bytes, longer strings with and without a
\* timestamp in front, a month 13, and a number
WireChoices ==
    {"null", "\"\"", "\"2024\"", "\"2024-12-31T12:34:5\"", "\"2024-12-31T12:34:56\"",
     "\"2024-12-31T12:34:56.789Z\"", "\"2024-13-31T12:34:56\"",
     "\"not a timestamp at all\"", "12"}

\* bytes arrive for a LangsmithTime that holds lt
TimeReceive ==
    /\ ~wire.made
    /\ \E t \in Times : lt' = t
    /\ \E b \in WireChoices : wire' = [made |-> TRUE, bytes |-> b]
    /\ decoded' = NoDecoded
    /\ UNCHANGED clientVars

\* (&lt).UnmarshalJSON(wire.bytes)
TimeDecode ==
    /\ wire.made
    /\ decoded.status = "none"
    /\ decoded' = UnmarshalJSON(lt, wire.bytes)
    /\ UNCHANGED <<lt, wire>>
    /\ UNCHANGED clientVars

DecodeNext == TimeReceive \/ TimeDecode


(***************************************************************************)
(* JSON documents and their decoding into the typed results                *)
(*                                                                         *)
(* A response body is a JSON document (null, a string, a number, an array, *)
(* an object whose fields are a function from names to documents), or no   *)
(* bytes at all ("empty"), or bytes that are no JSON ("malformed").        *)
(* A decode yields status "ok", "typeerr" (encoding/json keeps its first   *)
(* UnmarshalTypeError and goes on), "err" (an Unmarshaler's error: the     *)
(* decode stops there) or "panic", and the value decoded so far.           *)
(***************************************************************************)

JEmpty == [t |-> "empty"]

JMalformed == [t |-> "malformed"]

JNull == [t |-> "null"]

JStr(s) == [t |-> "str", s |-> s]

JNum(n) == [t |-> "num", n |-> n]

JArr(items) == [t |-> "arr", items |-> items]

JObj(fields) == [t |-> "obj", fields |-> fields]

\* whether json.Unmarshal accepts the bytes as a JSON text at all
IsJSON(v) == v.t \notin {"empty", "malformed"}

HasField(v, name) == v.t = "obj" /\ name \in DOMAIN v.fields

\* the bytes of a scalar document, as encoding/json hands them to an Unmarshaler
RawJSON(v) ==
    CASE v.t = "null" -> "null"
      [] v.t = "str" -> "\"" \o v.s \o "\""
      [] v.t = "num" -> DecStr(v.n)
      [] v.t = "arr" -> "[]"
      [] OTHER -> "{}"

Decoded(status, err, value) == [status |-> status, err |-> err, value |-> value]

TypeErr == Err("decoding", "json: cannot unmarshal")

SyntaxErr == Err("decoding", "invalid character or unexpected end of JSON input")

\* the worse of two statuses, a then b, when the decode went on after a
Then(a, b) == IF a.status = "ok" THEN b ELSE Decoded(a.status, a.err, b.value)

\* a string field of a struct: absent and null leave "", a string sets it
StringField(v, name) ==
    IF ~HasField(v, name) \/ v.fields[name].t = "null" THEN Decoded("ok", NilErr, "")
    ELSE IF v.fields[name].t = "str" THEN Decoded("ok", NilErr, v.fields[name].s)
    ELSE Decoded("typeerr", TypeErr, "")

NilTime == [isNil |-> TRUE, t |-> ZeroTime]

\* the outcome u of UnmarshalJSON as the decode of a field
TimePtr(u) == Decoded(u.status, u.err, [isNil |-> FALSE, t |-> u.t])

TimeVal(u) == Decoded(u.status, u.err, u.t)

\* a *LangsmithTime field: absent and null leave nil (UnmarshalJSON is not
\* called for null into a pointer), anything else goes to UnmarshalJSON
TimePtrField(v, name) ==
    IF ~HasField(v, name) \/ v.fields[name].t = "null" THEN Decoded("ok", NilErr, NilTime)
    ELSE TimePtr(UnmarshalJSON(ZeroTime, RawJSON(v.fields[name])))

\* a LangsmithTime field held by value: absent leaves the zero time, anything
\* else, null included, goes to UnmarshalJSON
TimeField(v, name) ==
    IF ~HasField(v, name) THEN Decoded("ok", NilErr, ZeroTime)
    ELSE TimeVal(UnmarshalJSON(ZeroTime, RawJSON(v.fields[name])))

Stops(d) == d.status \in {"err", "panic"}

\* an array's decode from its first element's and the rest's: nothing after
\* an element that stops the decode is decoded
Cons(first, rest) ==
    IF Stops(first) THEN Decoded(first.status, first.err, <<first.value>>)
    ELSE IF Stops(rest) THEN Decoded(rest.status, rest.err, <<first.value>> \o rest.value)
    ELSE Then(first, Decoded(rest.status, rest.err, <<first.value>> \o rest.value))

ZeroExample == [ID |-> "", DatasetID |-> "", CreatedAt |-> NilTime]

\* the Example of its decoded fields; a field that stops the decode leaves
\* the later fields as they were
ExampleOf(id, at, ds) ==
    IF Stops(at) THEN Decoded(at.status, at.err, [ZeroExample EXCEPT !.ID = id.value])
    ELSE Then(id, Then(at, Decoded(ds.status, ds.err,
                 [ID |-> id.value, DatasetID |-> ds.value, CreatedAt |-> at.value])))

\* one Example from a document; the decode takes the fields in the order the
\* document writes them, here id, created_at, dataset_id
DecodeExample(v) ==
    IF v.t = "null" THEN Decoded("ok", NilErr, ZeroExample)
    ELSE IF v.t # "obj" THEN Decoded("typeerr", TypeErr, ZeroExample)
    ELSE ExampleOf(StringField(v, "id"), TimePtrField(v, "created_at"),
                   StringField(v, "dataset_id"))

RECURSIVE DecodeExampleItems(_)
\* the elements of a JSON array into []Example, left to right
DecodeExampleItems(items) ==
    IF items = <<>> THEN Decoded("ok", NilErr, <<>>)
    ELSE Cons(DecodeExample(Head(items)), DecodeExampleItems(Tail(items)))

\* json.Unmarshal(b, &examples) for examples []Example
UnmarshalExamples(v) ==
    IF ~IsJSON(v) THEN Decoded("err", SyntaxErr, <<>>)
    ELSE IF v.t = "null" THEN Decoded("ok", NilErr, <<>>)
    ELSE IF v.t # "arr" THEN Decoded("typeerr", TypeErr, <<>>)
    ELSE DecodeExampleItems(v.items)

ZeroComparativeExperiment == [ID |-> "", CreatedAt |-> ZeroTime]

ComparativeExperimentOf(id, at) ==
    IF Stops(at)
    THEN Decoded(at.status, at.err, [ZeroComparativeExperiment EXCEPT !.ID = id.value])
    ELSE Then(id, Decoded(at.status, at.err, [ID |-> id.value, CreatedAt |-> at.value]))

DecodeComparativeExperiment(v) ==
    IF v.t = "null" THEN Decoded("ok", NilErr, ZeroComparativeExperiment)
    ELSE IF v.t # "obj" THEN Decoded("typeerr", TypeErr, ZeroComparativeExperiment)
    ELSE ComparativeExperimentOf(StringField(v, "id"), TimeField(v, "created_at"))

RECURSIVE DecodeComparativeItems(_)
DecodeComparativeItems(items) ==
    IF items = <<>> THEN Decoded("ok", NilErr, <<>>)
    ELSE Cons(DecodeComparativeExperiment(Head(items)), DecodeComparativeItems(Tail(items)))

\* json.Unmarshal(b, &experiments) for experiments []ComparativeExperiment
UnmarshalComparativeExperiments(v) ==
    IF ~IsJSON(v) THEN Decoded("err", SyntaxErr, <<>>)
    ELSE IF v.t = "null" THEN Decoded("ok", NilErr, <<>>)
    ELSE IF v.t # "arr" THEN Decoded("typeerr", TypeErr, <<>>)
    ELSE DecodeComparativeItems(v.items)

ZeroRun == [ID |-> "", StartTime |-> NilTime]

RunOf(at, id) ==
    IF Stops(at) THEN Decoded(at.status, at.err, ZeroRun)
    ELSE Then(at, Decoded(id.status, id.err, [ID |-> id.value, StartTime |-> at.value]))

DecodeRun(v) ==
    IF v.t = "null" THEN Decoded("ok", NilErr, ZeroRun)
    ELSE IF v.t # "obj" THEN Decoded("typeerr", TypeErr, ZeroRun)
    ELSE RunOf(TimePtrField(v, "start_time"), StringField(v, "id"))

RECURSIVE DecodeRunItems(_)
DecodeRunItems(items) ==
    IF items = <<>> THEN Decoded("ok", NilErr, <<>>)
    ELSE Cons(DecodeRun(Head(items)), DecodeRunItems(Tail(items)))

ZeroRunsResponse == [Runs |-> <<>>]

RunsResponseOf(runs) == Decoded(runs.status, runs.err, [Runs |-> runs.value])

\* json.Unmarshal(b, &runsResponse) for runsResponse RunsResponse
UnmarshalRunsResponse(v) ==
    IF ~IsJSON(v) THEN Decoded("err", SyntaxErr, ZeroRunsResponse)
    ELSE IF v.t = "null" THEN Decoded("ok", NilErr, ZeroRunsResponse)
    ELSE IF v.t # "obj" THEN Decoded("typeerr", TypeErr, ZeroRunsResponse)
    ELSE IF ~HasField(v, "runs") \/ v.fields["runs"].t = "null"
    THEN Decoded("ok", NilErr, ZeroRunsResponse)
    ELSE IF v.fields["runs"].t # "arr" THEN Decoded("typeerr", TypeErr, ZeroRunsResponse)
    ELSE RunsResponseOf(DecodeRunItems(v.fields["runs"].items))

ResponseOf(detail) == Decoded(detail.status, detail.err, [Detail |-> detail.value])

\* json.Unmarshal into the Response type, {"detail": string}
UnmarshalResponse(v) ==
    IF ~IsJSON(v) THEN Decoded("err", SyntaxErr, [Detail |-> ""])
    ELSE IF v.t = "null" THEN Decoded("ok", NilErr, [Detail |-> ""])
    ELSE IF v.t # "obj" THEN Decoded("typeerr", TypeErr, [Detail |-> ""])
    ELSE ResponseOf(StringField(v, "detail"))


(***************************************************************************)
(* HTTP: requests, the transport's outcomes, the shared helpers            *)
(***************************************************************************)

NoBody == [kind |-> "none", json |-> "", parts |-> <<>>]

\* a JSON body: bytes.NewBuffer(jsonData)
Body(data) == [kind |-> "json", json |-> data, parts |-> <<>>]

\* a multipart body: the parts written, in order
FormBody(parts) == [kind |-> "multipart", json |-> "", parts |-> parts]

NoReq == [method |-> "", url |-> "", header |-> {}, body |-> NoBody]

\* http.NewRequest: the request, or an error when the URL does not parse
NewRequest(method, url, body) ==
    IF ContainsCTL(url)
    THEN [err |-> Err("request", "net/url: invalid control character in URL"), req |-> NoReq]
    ELSE [err |-> NilErr,
          req |-> [method |-> method, url |-> url, header |-> {}, body |-> body]]

\* req.Header.Set(name, value): the header is a set of <<name, value>> pairs
HeaderSet(req, name, value) ==
    [req EXCEPT !.header = {h \in req.header : h[1] # name} \cup {<<name, value>>}]

HeaderGet(req, name) ==
    IF \E h \in req.header : h[1] = name
    THEN (CHOOSE h \in req.header : h[1] = name)[2]
    ELSE ""

NoResp == [kind |-> "none", status |-> 0, body |-> JEmpty, readOk |-> TRUE]

TransportFailure == [kind |-> "error", status |-> 0, body |-> JEmpty, readOk |-> TRUE]

HttpResp(status, body, readOk) ==
    [kind |-> "http", status |-> status, body |-> body, readOk |-> readOk]

TransportErr == Err("transport", "dial tcp: connection refused")

ReadErr == Err("transport", "unexpected EOF")

\* the response bodies tried
DetailBody == JObj([detail |-> JStr("not found")])

ExamplesBody ==
    JArr(<<JObj([id |-> JStr("ex-1"), dataset_id |-> JStr("ds-1"),
                 inputs |-> JObj([a |-> JNum(1)])])>>)

TimedExamplesBody ==
    JArr(<<JObj([id |-> JStr("ex-1"),
                 created_at |-> JStr("2024-05-06T07:08:09.123456+00:00")])>>)

ShortTimeBody == JArr(<<JObj([id |-> JStr("ex-1"), created_at |-> JStr("2024")])>>)

MixedBody == JArr(<<JObj([id |-> JStr("ex-1")]), JNum(5)>>)

RunsBody == JObj([runs |-> JArr(<<JObj([id |-> JStr("r-1")])>>), cursors |-> JNull])

ShortTimeRunsBody ==
    JObj([runs |-> JArr(<<JObj([id |-> JStr("r-1"), start_time |-> JStr("2024")])>>)])

ErrorBodies == {JEmpty, JMalformed, DetailBody}

SuccessBodies ==
    ErrorBodies \cup {JNull, ExamplesBody, TimedExamplesBody, ShortTimeBody, MixedBody,
                      RunsBody, ShortTimeRunsBody}

SuccessStatuses == {200, 201, 299}

FailureStatuses == {199, 300, 404}

\* what the transport may do with one request
Outcomes ==
    {TransportFailure}
    \cup {HttpResp(st, b, TRUE) : st \in SuccessStatuses, b \in SuccessBodies}
    \cup {HttpResp(st, b, TRUE) : st \in FailureStatuses, b \in ErrorBodies}
    \cup {HttpResp(st, ExamplesBody, FALSE) : st \in {200, 404}}

NoResult == [isNil |-> TRUE, value |-> <<>>]

Result(v) == [isNil |-> FALSE, value |-> v]

\* how a call ended: the requests it issued, the transport's answer to the
\* last one, and what it returned, or that it panicked
Returned(sent, resp, result, err) ==
    [sent |-> sent, resp |-> resp, result |-> result, err |-> err, aborted |-> FALSE]

Panicked(sent, resp) ==
    [sent |-> sent, resp |-> resp, result |-> NoResult, err |-> NilErr, aborted |-> TRUE]

StatusLine(status) == "request failed with status " \o DecStr(status)

\* handleResponse: 2xx is success whatever the body; otherwise the body is
\* decoded as {"detail": string} and the error carries the detail, or the
\* status line when the body does not decode
handleResponse(resp) ==
    IF resp.status >= 200 /\ resp.status <= 299 THEN NilErr
    ELSE IF resp.readOk /\ UnmarshalResponse(resp.body).status = "ok"
    THEN Err("remote", UnmarshalResponse(resp.body).value.Detail)
    ELSE Err("remote", StatusLine(resp.status))

\* io.ReadAll(resp.Body), io.Copy(&b, resp.Body)
ReadAll(resp) ==
    IF resp.readOk THEN [err |-> NilErr, data |-> resp.body]
    ELSE [err |-> ReadErr, data |-> JEmpty]

\* baseClient.Do(url, method, jsonData): one request to url with the JSON
\* body and the API key header; the response is classified, its body unused
Do(d, url, method, jsonData, out) ==
    LET nr == NewRequest(method, url, Body(jsonData))
        req == HeaderSet(nr.req, "x-api-key", d.APIKey)
    IN  IF ~nr.err.isNil THEN Returned(<<>>, NoResp, NoResult, nr.err)
        ELSE IF out.kind = "error" THEN Returned(<<req>>, out, NoResult, TransportErr)
        ELSE Returned(<<req>>, out, NoResult, handleResponse(out))

\* baseClient.PostForm(url, body, contentType): the same for a multipart body
PostForm(d, url, body, contentType, out) ==
    LET nr == NewRequest("POST", url, FormBody(body))
        req == HeaderSet(HeaderSet(nr.req, "Content-Type", contentType),
                         "x-api-key", d.APIKey)
    IN  IF ~nr.err.isNil THEN Returned(<<>>, NoResp, NoResult, nr.err)
        ELSE IF out.kind = "error" THEN Returned(<<req>>, out, NoResult, TransportErr)
        ELSE Returned(<<req>>, out, NoResult, handleResponse(out))

(***************************************************************************)
(* Request objects and their encoding                                      *)
(***************************************************************************)

\* A request object (Dataset, Experiment, Example, Feedback, ...) is nil, or
\* a value json.Marshal encodes, or a value it refuses (each of these types
\* holds a map[string]any or an any, which may hold a channel or a NaN).
NilObject == [isNil |-> TRUE, encodable |-> TRUE, json |-> "null"]

Object(json) == [isNil |-> FALSE, encodable |-> TRUE, json |-> json]

BadObject == [isNil |-> FALSE, encodable |-> FALSE, json |-> ""]

MarshalErr == Err("encoding", "json: unsupported value")

\* json.Marshal(input): a nil pointer or nil slice encodes as null
Marshal(input) ==
    IF input.isNil THEN [err |-> NilErr, data |-> "null"]
    ELSE IF ~input.encodable THEN [err |-> MarshalErr, data |-> ""]
    ELSE [err |-> NilErr, data |-> input.json]

PointerInputs == {NilObject, Object("{\"name\":\"n\"}"), BadObject}

ValueInputs == {Object("{\"id\":\"ex-1\"}"), BadObject}

SliceInputs == {NilObject, Object("[{\"id\":\"ex-1\"}]"), BadObject}

\* fmt.Sprintf("%d", n)
FormatInt(n) == IF n < 0 THEN "-" \o DecStr(-n) ELSE DecStr(n)


(***************************************************************************)
(* json.Marshal of the request records.  A record is the sequence of its   *)
(* fields in declaration order, each with the name and the omitempty       *)
(* option of its json tag and its value.  A value has the Go kind of the   *)
(* field's type: "string", "struct" (LangsmithTime is a time.Time), or     *)
(* "map", "interface", "ptr", which are nil in the records tried (a        *)
(* record holding a map or an any that json.Marshal refuses is BadObject). *)
(***************************************************************************)

StringValue(s) == [kind |-> "string", s |-> s, isNil |-> FALSE, t |-> ZeroTime]

TimeValue(t) == [kind |-> "struct", s |-> "", isNil |-> FALSE, t |-> t]

NilValue(kind) == [kind |-> kind, s |-> "", isNil |-> TRUE, t |-> ZeroTime]

StructField(name, omitempty, value) ==
    [name |-> name, omitempty |-> omitempty, value |-> value]

\* encoding/json isEmptyValue: an empty string, a nil map, interface or
\* pointer; a struct is never empty, whatever it holds
isEmptyValue(v) ==
    CASE v.kind = "string" -> v.s = ""
      [] v.kind = "struct" -> FALSE
      [] OTHER -> v.isNil

\* the encoding of one value: a LangsmithTime through its MarshalJSON
encodeValue(v) ==
    CASE v.kind = "string" -> "\"" \o v.s \o "\""
      [] v.kind = "struct" -> MarshalJSON(v.t).bytes
      [] OTHER -> "null"

\* the fields of a struct in order: one tagged omitempty is skipped when
\* isEmptyValue says so; sep is what comes before the next field written
RECURSIVE encodeFields(_, _)
encodeFields(fields, sep) ==
    IF fields = <<>> THEN ""
    ELSE IF Head(fields).omitempty /\ isEmptyValue(Head(fields).value)
    THEN encodeFields(Tail(fields), sep)
    ELSE sep \o "\"" \o Head(fields).name \o "\":" \o encodeValue(Head(fields).value)
             \o encodeFields(Tail(fields), ",")

structEncoder(fields) == "{" \o encodeFields(fields, "") \o "}"

\* a non-nil request record that json.Marshal encodes
Struct(fields) ==
    [isNil |-> FALSE, encodable |-> TRUE, json |-> structEncoder(fields), fields |-> fields]

Feedback(id, createdAt, modifiedAt, key, comment) ==
    << StructField("id", TRUE, StringValue(id)),
       StructField("created_at", TRUE, TimeValue(createdAt)),
       StructField("modified_at", TRUE, TimeValue(modifiedAt)),
       StructField("key", FALSE, StringValue(key)),
       StructField("score", TRUE, NilValue("interface")),
       StructField("value", TRUE, NilValue("interface")),
       StructField("comment", TRUE, StringValue(comment)),
       StructField("correction", TRUE, NilValue("interface")),
       StructField("feedback_group_id", TRUE, StringValue("")),
       StructField("comparative_experiment_id", TRUE, StringValue("")),
       StructField("run_id", TRUE, StringValue("")),
       StructField("session_id", TRUE, StringValue("")),
       StructField("trace_id", TRUE, StringValue("")),
       StructField("feedback_source", TRUE, NilValue("ptr")),
       StructField("feedback_config", TRUE, NilValue("ptr")) >>

TracerSessionRequest(id, startTime, endTime, name) ==
    << StructField("id", TRUE, StringValue(id)),
       StructField("start_time", TRUE, TimeValue(startTime)),
       StructField("end_time", TRUE, TimeValue(endTime)),
       StructField("extra", TRUE, NilValue("map")),
       StructField("name", TRUE, StringValue(name)),
       StructField("description", TRUE, StringValue("")),
       StructField("default_dataset_id", TRUE, StringValue("")),
       StructField("reference_dataset_id", TRUE, StringValue("")),
       StructField("trace_tier", TRUE, StringValue("")) >>

TracerSessionUpdate(endTime, name) ==
    << StructField("end_time", TRUE, TimeValue(endTime)),
       StructField("extra", TRUE, NilValue("map")),
       StructField("name", TRUE, StringValue(name)),
       StructField("description", TRUE, StringValue("")),
       StructField("default_dataset_id", TRUE, StringValue("")),
       StructField("trace_tier", TRUE, StringValue("")) >>

\* 2024-12-31T12:34:56Z
SetTime == Time(20088, 45296, 0, 0)

FeedbackInputs ==
    PointerInputs
    \cup {Struct(Feedback("", ZeroTime, ZeroTime, "k", "")),
          Struct(Feedback("fb-1", SetTime, ZeroTime, "", "c")),
          Struct(Feedback("fb-1", SetTime, SetTime, "k", "c"))}

TracerSessionRequestInputs ==
    PointerInputs
    \cup {Struct(TracerSessionRequest("", ZeroTime, ZeroTime, "")),
          Struct(TracerSessionRequest("s-1", SetTime, ZeroTime, "n")),
          Struct(TracerSessionRequest("s-1", SetTime, SetTime, "n"))}

TracerSessionUpdateInputs ==
    PointerInputs
    \cup {Struct(TracerSessionUpdate(ZeroTime, "n")),
          Struct(TracerSessionUpdate(SetTime, ""))}


(***************************************************************************)
(* DatasetCSV.ToMultiPart                                                  *)
(***************************************************************************)

NilCSV ==
    [isNil |-> TRUE, File |-> "", InputKeys |-> <<>>, Name |-> "", DataType |-> "",
     OutputKeys |-> <<>>, Description |-> ""]

DatasetCSV(file, inputKeys, name, dataType, outputKeys, description) ==
    [isNil |-> FALSE, File |-> file, InputKeys |-> inputKeys, Name |-> name,
     DataType |-> dataType, OutputKeys |-> outputKeys, Description |-> description]

\* mw.WriteField(name, value)
Field(name, value) == [name |-> name, filename |-> "", value |-> value]

\* mw.CreateFormFile(name, filename) and the write of its content
FormFile(name, filename, content) == [name |-> name, filename |-> filename, value |-> content]

\* one field called name per key, in the order of keys
KeyFields(name, keys) == [i \in 1..Len(keys) |-> Field(name, keys[i])]

\* multipart.Writer picks a random boundary; its value decides nothing here
Boundary == "boundary"

\* ToMultiPart writing the input keys last key first
ToMultiPartReversed(d) ==
    IF d.isNil THEN [status |-> "panic", err |-> NilErr, body |-> <<>>, contentType |-> ""]
    ELSE [status |-> "ok", err |-> NilErr,
          body |-> (IF d.File # "" THEN <<FormFile("file", "dataset.csv", d.File)>> ELSE <<>>)
                   \o [i \in 1..Len(d.InputKeys) |->
                          Field("input_keys", d.InputKeys[Len(d.InputKeys) + 1 - i])]
                   \o (IF d.Name # "" THEN <<Field("name", d.Name)>> ELSE <<>>)
                   \o <<Field("data_type", d.DataType)>>
                   \o KeyFields("output_keys", d.OutputKeys)
                   \o (IF d.Description # "" THEN <<Field("description", d.Description)>>
                       ELSE <<>>),
          contentType |-> "multipart/form-data; boundary=" \o Boundary]

\* ToMultiPart: status "panic" on a nil receiver (d.File is read first);
\* the writes go to a bytes.Buffer and do not fail
ToMultiPart(d) ==
    IF d.isNil THEN [status |-> "panic", err |-> NilErr, body |-> <<>>, contentType |-> ""]
    ELSE [status |-> "ok", err |-> NilErr,
          body |-> (IF d.File # "" THEN <<FormFile("file", "dataset.csv", d.File)>> ELSE <<>>)
                   \o KeyFields("input_keys", d.InputKeys)
                   \o (IF d.Name # "" THEN <<Field("name", d.Name)>> ELSE <<>>)
                   \o <<Field("data_type", d.DataType)>>
                   \o KeyFields("output_keys", d.OutputKeys)
                   \o (IF d.Description # "" THEN <<Field("description", d.Description)>>
                       ELSE <<>>),
          contentType |-> "multipart/form-data; boundary=" \o Boundary]

\* the longest key list tried
MaxKeys == 2

KeyNames == {"a", "b"}

KeySeqs == UNION {[1..n -> KeyNames] : n \in 0..MaxKeys}

CSVInputs ==
    {NilCSV}
    \cup {DatasetCSV("x,y", ik, "n", "kv", <<>>, "") : ik \in KeySeqs}
    \cup {DatasetCSV("", ik, "", "csv", <<"y", "x">>, "d") : ik \in KeySeqs}
    \cup {DatasetCSV("x,y", <<"b", "a", "b">>, "n", "kv", <<"y", "x", "y">>, "d")}

(***************************************************************************)
(* The public operations of DatasetClient.  Each takes the receiver d, its *)
(* arguments and out, what the transport does with the request if one is   *)
(* issued, and yields how the call ended.                                  *)
(***************************************************************************)

\* the end of an operation that decodes the body: the outcome dec of
\* json.Unmarshal is a panic, or the error returned with a nil result, or the
\* result returned with a nil error
Unmarshalled(req, out, dec) ==
    IF dec.status = "panic" THEN Panicked(<<req>>, out)
    ELSE IF dec.status # "ok" THEN Returned(<<req>>, out, NoResult, dec.err)
    ELSE Returned(<<req>>, out, Result(dec.value), NilErr)

\* an answer whose body is no JSON made into a decoding error, as an
\* operation that decoded the body of every answer would
BodyDecoded(r) ==
    IF r.err.isNil /\ r.resp.kind = "http" /\ ~IsJSON(r.resp.body)
    THEN [r EXCEPT !.err = SyntaxErr]
    ELSE r

\* CreateDataset decoding the response body it has no use for
CreateDatasetCallDecoding(d, input, out) ==
    IF ~Marshal(input).err.isNil THEN Returned(<<>>, NoResp, NoResult, Marshal(input).err)
    ELSE BodyDecoded(Do(d, d.baseUrl, "POST", Marshal(input).data, out))

CreateDatasetCall(d, input, out) ==
    LET m == Marshal(input) IN
    IF ~m.err.isNil THEN Returned(<<>>, NoResp, NoResult, m.err)
    ELSE Do(d, d.baseUrl, "POST", m.data, out)

UploadCSVCall(d, input, out) ==
    LET mp == ToMultiPart(input) IN
    IF mp.status = "panic" THEN Panicked(<<>>, NoResp)
    ELSE IF ~mp.err.isNil THEN Returned(<<>>, NoResp, NoResult, mp.err)
    ELSE PostForm(d, d.baseUrl \o "/upload", mp.body, mp.contentType, out)

UploadExperimentCall(d, input, out) ==
    LET m == Marshal(input) IN
    IF ~m.err.isNil THEN Returned(<<>>, NoResp, NoResult, m.err)
    ELSE Do(d, d.baseUrl \o "/upload-experiment", "POST", m.data, out)

\* ReadDataset sending the request a second time after a transport failure
ReadDatasetCallRetrying(d, id, out) ==
    LET nr == NewRequest("GET", d.baseUrl \o "/" \o id, NoBody)
        req == HeaderSet(nr.req, "x-api-key", d.APIKey)
    IN  IF ~nr.err.isNil THEN Returned(<<>>, NoResp, NoResult, nr.err)
        ELSE IF out.kind = "error" THEN Returned(<<req, req>>, out, NoResult, TransportErr)
        ELSE IF ~handleResponse(out).isNil
        THEN Returned(<<req>>, out, NoResult, handleResponse(out))
        ELSE IF ~ReadAll(out).err.isNil
        THEN Returned(<<req>>, out, NoResult, ReadAll(out).err)
        ELSE Returned(<<req>>, out, Result(ReadAll(out).data), NilErr)

ReadDatasetCall(d, id, out) ==
    LET nr == NewRequest("GET", d.baseUrl \o "/" \o id, NoBody)
        req == HeaderSet(nr.req, "x-api-key", d.APIKey)
    IN  IF ~nr.err.isNil THEN Returned(<<>>, NoResp, NoResult, nr.err)
        ELSE IF out.kind = "error" THEN Returned(<<req>>, out, NoResult, TransportErr)
        ELSE IF ~handleResponse(out).isNil
        THEN Returned(<<req>>, out, NoResult, handleResponse(out))
        ELSE IF ~ReadAll(out).err.isNil
        THEN Returned(<<req>>, out, NoResult, ReadAll(out).err)
        ELSE Returned(<<req>>, out, Result(ReadAll(out).data), NilErr)

DownloadDatasetCsvCall(d, id, out) ==
    LET nr == NewRequest("GET", d.baseUrl \o "/" \o id \o "/csv", NoBody)
        req == HeaderSet(nr.req, "x-api-key", d.APIKey)
    IN  IF ~nr.err.isNil THEN Returned(<<>>, NoResp, NoResult, nr.err)
        ELSE IF out.kind = "error" THEN Returned(<<req>>, out, NoResult, TransportErr)
        ELSE IF ~handleResponse(out).isNil
        THEN Returned(<<req>>, out, NoResult, handleResponse(out))
        ELSE IF ~ReadAll(out).err.isNil
        THEN Returned(<<req>>, out, NoResult, ReadAll(out).err)
        ELSE Returned(<<req>>, out, Result(ReadAll(out).data), NilErr)

\* GetExamples without the handleResponse check before the decode
GetExamplesCallUnclassified(d, datasetId, offset, out) ==
    LET nr == NewRequest("GET", BASE_URL \o "/examples?dataset=" \o datasetId
                                \o "&offset=" \o FormatInt(offset), NoBody)
        req == HeaderSet(nr.req, "x-api-key", d.APIKey)
    IN  IF ~nr.err.isNil THEN Returned(<<>>, NoResp, NoResult, nr.err)
        ELSE IF out.kind = "error" THEN Returned(<<req>>, out, NoResult, TransportErr)
        ELSE IF ~ReadAll(out).err.isNil
        THEN Returned(<<req>>, out, NoResult, ReadAll(out).err)
        ELSE Unmarshalled(req, out, UnmarshalExamples(ReadAll(out).data))

GetExamplesCall(d, datasetId, offset, out) ==
    LET nr == NewRequest("GET", BASE_URL \o "/examples?dataset=" \o datasetId
                                \o "&offset=" \o FormatInt(offset), NoBody)
        req == HeaderSet(nr.req, "x-api-key", d.APIKey)
    IN  IF ~nr.err.isNil THEN Returned(<<>>, NoResp, NoResult, nr.err)
        ELSE IF out.kind = "error" THEN Returned(<<req>>, out, NoResult, TransportErr)
        ELSE IF ~handleResponse(out).isNil
        THEN Returned(<<req>>, out, NoResult, handleResponse(out))
        ELSE IF ~ReadAll(out).err.isNil
        THEN Returned(<<req>>, out, NoResult, ReadAll(out).err)
        ELSE Unmarshalled(req, out, UnmarshalExamples(ReadAll(out).data))

CreateExampleCall(d, example, out) ==
    LET m == Marshal(example) IN
    IF ~m.err.isNil THEN Returned(<<>>, NoResp, NoResult, m.err)
    ELSE Do(d, BASE_URL \o "/examples", "POST", m.data, out)

CreateExamplesCall(d, examples, out) ==
    LET m == Marshal(examples) IN
    IF ~m.err.isNil THEN Returned(<<>>, NoResp, NoResult, m.err)
    ELSE Do(d, BASE_URL \o "/examples/bulk", "POST", m.data, out)

\* the body is the fixed map {"session_ids": [...]}, which always encodes
SessionIdsBody == "{\"session_ids\":[\"58a7c5a2-c14e-42dc-936a-3af8e84777fa\"]}"

GetExamplesWithRunsCall(d, datasetId, out) ==
    LET nr == NewRequest("POST", d.baseUrl \o "/" \o datasetId \o "/runs", Body(SessionIdsBody))
        req == HeaderSet(nr.req, "x-api-key", d.APIKey)
    IN  IF ~nr.err.isNil THEN Returned(<<>>, NoResp, NoResult, nr.err)
        ELSE IF out.kind = "error" THEN Returned(<<req>>, out, NoResult, TransportErr)
        ELSE IF ~handleResponse(out).isNil
        THEN Returned(<<req>>, out, NoResult, handleResponse(out))
        ELSE IF ~ReadAll(out).err.isNil
        THEN Returned(<<req>>, out, NoResult, ReadAll(out).err)
        ELSE Unmarshalled(req, out, UnmarshalExamples(ReadAll(out).data))

CreateComparativeExperimentCall(d, input, out) ==
    LET m == Marshal(input) IN
    IF ~m.err.isNil THEN Returned(<<>>, NoResp, NoResult, m.err)
    ELSE Do(d, d.baseUrl \o "/comparative", "POST", m.data, out)

\* ReadComparitiveExperiment with the two ids in each other's place
ReadComparitiveExperimentCallSwapped(d, datasetId, experimentId, out) ==
    LET nr == NewRequest("GET", d.baseUrl \o "/" \o experimentId \o "/comparative?id="
                                \o datasetId, NoBody)
        req == HeaderSet(nr.req, "x-api-key", d.APIKey)
    IN  IF ~nr.err.isNil THEN Returned(<<>>, NoResp, NoResult, nr.err)
        ELSE IF out.kind = "error" THEN Returned(<<req>>, out, NoResult, TransportErr)
        ELSE IF ~handleResponse(out).isNil
        THEN Returned(<<req>>, out, NoResult, handleResponse(out))
        ELSE IF ~ReadAll(out).err.isNil
        THEN Returned(<<req>>, out, NoResult, ReadAll(out).err)
        ELSE Unmarshalled(req, out, UnmarshalComparativeExperiments(ReadAll(out).data))

ReadComparitiveExperimentCall(d, datasetId, experimentId, out) ==
    LET nr == NewRequest("GET", d.baseUrl \o "/" \o datasetId \o "/comparative?id="
                                \o experimentId, NoBody)
        req == HeaderSet(nr.req, "x-api-key", d.APIKey)
    IN  IF ~nr.err.isNil THEN Returned(<<>>, NoResp, NoResult, nr.err)
        ELSE IF out.kind = "error" THEN Returned(<<req>>, out, NoResult, TransportErr)
        ELSE IF ~handleResponse(out).isNil
        THEN Returned(<<req>>, out, NoResult, handleResponse(out))
        ELSE IF ~ReadAll(out).err.isNil
        THEN Returned(<<req>>, out, NoResult, ReadAll(out).err)
        ELSE Unmarshalled(req, out, UnmarshalComparativeExperiments(ReadAll(out).data))

NilQueryParams == [isNil |-> TRUE, Select |-> <<>>, Filter |-> ""]

QueryParams(select, filter) == [isNil |-> FALSE, Select |-> select, Filter |-> filter]

RECURSIVE JoinQuoted(_)
JoinQuoted(strs) ==
    IF strs = <<>> THEN ""
    ELSE "\"" \o Head(strs) \o "\"" \o (IF Len(strs) > 1 THEN "," ELSE "")
         \o JoinQuoted(Tail(strs))

\* json.Marshal of a []string; the empty list here is the nil slice
MarshalStrings(strs) == IF strs = <<>> THEN "null" ELSE "[" \o JoinQuoted(strs) \o "]"

\* json.Marshal of the map {session, root, select, filter}: keys in sorted
\* order; strings, booleans and string lists always encode
MarshalQuery(experimentIds, isRoot, select, filter) ==
    "{\"filter\":\"" \o filter \o "\",\"root\":" \o (IF isRoot THEN "true" ELSE "false")
    \o ",\"select\":" \o MarshalStrings(select)
    \o ",\"session\":" \o MarshalStrings(experimentIds) \o "}"

\* QueryRuns without req.Header.Set("x-api-key", d.APIKey)
QueryRunsCallNoHeader(d, experimentIds, isRoot, queryParams, out) ==
    LET nr == NewRequest("POST", BASE_URL \o "/runs/query",
                         Body(MarshalQuery(experimentIds, isRoot, queryParams.Select,
                                           queryParams.Filter)))
        req == nr.req
    IN  IF queryParams.isNil THEN Panicked(<<>>, NoResp)
        ELSE IF ~nr.err.isNil THEN Returned(<<>>, NoResp, NoResult, nr.err)
        ELSE IF out.kind = "error" THEN Returned(<<req>>, out, NoResult, TransportErr)
        ELSE IF ~handleResponse(out).isNil
        THEN Returned(<<req>>, out, NoResult, handleResponse(out))
        ELSE IF ~ReadAll(out).err.isNil
        THEN Returned(<<req>>, out, NoResult, ReadAll(out).err)
        ELSE Unmarshalled(req, out, UnmarshalRunsResponse(ReadAll(out).data))

QueryRunsCall(d, experimentIds, isRoot, queryParams, out) ==
    LET nr == NewRequest("POST", BASE_URL \o "/runs/query",
                         Body(MarshalQuery(experimentIds, isRoot, queryParams.Select,
                                           queryParams.Filter)))
        req == HeaderSet(nr.req, "x-api-key", d.APIKey)
    IN  IF queryParams.isNil THEN Panicked(<<>>, NoResp)
        ELSE IF ~nr.err.isNil THEN Returned(<<>>, NoResp, NoResult, nr.err)
        ELSE IF out.kind = "error" THEN Returned(<<req>>, out, NoResult, TransportErr)
        ELSE IF ~handleResponse(out).isNil
        THEN Returned(<<req>>, out, NoResult, handleResponse(out))
        ELSE IF ~ReadAll(out).err.isNil
        THEN Returned(<<req>>, out, NoResult, ReadAll(out).err)
        ELSE Unmarshalled(req, out, UnmarshalRunsResponse(ReadAll(out).data))

CreateFeedbackCall(d, input, out) ==
    LET m == Marshal(input) IN
    IF ~m.err.isNil THEN Returned(<<>>, NoResp, NoResult, m.err)
    ELSE Do(d, BASE_URL \o "/feedback", "POST", m.data, out)

CreateTracerSessionCall(d, input, out) ==
    LET m == Marshal(input) IN
    IF ~m.err.isNil THEN Returned(<<>>, NoResp, NoResult, m.err)
    ELSE Do(d, BASE_URL \o "/sessions", "POST", m.data, out)

UpdateTracerSessionCall(d, sessionId, input, out) ==
    LET m == Marshal(input) IN
    IF ~m.err.isNil THEN Returned(<<>>, NoResp, NoResult, m.err)
    ELSE Do(d, BASE_URL \o "/sessions/" \o sessionId, "PATCH", m.data, out)


(***************************************************************************)
(* The state machine                                                       *)
(***************************************************************************)

NoCall == [op |-> "none", args |-> <<>>] @@ Returned(<<>>, NoResp, NoResult, NilErr)

\* the ids tried: two plain ones and one holding a control character
Ids == {"ds-1", "ex-1", "ds\n2"}

\* the largest offset tried
MaxOffset == 1

OffsetChoices == (-1)..MaxOffset

ExperimentIdLists == {<<>>, <<"exp-1", "exp-2">>}

QueryParamsInputs == {NilQueryParams, QueryParams(<<"id", "name">>, "eq(status, 'error')")}

ClientInit ==
    /\ envKey \in EnvKeys
    /\ envUrl \in EnvUrls
    /\ ctorPc = "idle"
    /\ ctorUrl = ""
    /\ newRet = NoRet
    /\ client = NoClient
    /\ call = NoCall

Init == ClientInit /\ TimeInit

\* another goroutine, or the program itself, sets or unsets LANGSMITH_API_KEY
SetenvKey ==
    /\ \E e \in EnvKeys \ {envKey} : envKey' = e
    /\ UNCHANGED <<envUrl, ctorPc, ctorUrl, newRet, client, call>>
    /\ UNCHANGED timeVars

\* ... or LANGSMITH_URL
SetenvUrl ==
    /\ \E e \in EnvUrls \ {envUrl} : envUrl' = e
    /\ UNCHANGED <<envKey, ctorPc, ctorUrl, newRet, client, call>>
    /\ UNCHANGED timeVars

\* NewDatasetClient without its key check: as if lines 22-24 were missing
NewDatasetClientCheckKeyUnchecked ==
    /\ ctorPc = "idle"
    /\ newRet' = NoRet
    /\ ctorPc' = "checked"
    /\ client' = NoClient
    /\ call' = NoCall
    /\ UNCHANGED <<envKey, envUrl, ctorUrl>>
    /\ UNCHANGED timeVars

\* NewDatasetClient, the key check: the program drops the client it held and
\* builds a new one
NewDatasetClientCheckKey ==
    /\ ctorPc = "idle"
    /\ IF Getenv(envKey) = ""
       THEN /\ newRet' = CtorRet(NoClient, Err("configuration", "langsmith api key is required"))
            /\ ctorPc' = "idle"
       ELSE /\ newRet' = NoRet
            /\ ctorPc' = "checked"
    /\ client' = NoClient
    /\ call' = NoCall
    /\ UNCHANGED <<envKey, envUrl, ctorUrl>>
    /\ UNCHANGED timeVars

\* NewDatasetClient, the base URL: LANGSMITH_URL, or BASE_URL when it is empty
NewDatasetClientReadUrl ==
    /\ ctorPc = "checked"
    /\ ctorUrl' = (IF Getenv(envUrl) = "" THEN BASE_URL ELSE Getenv(envUrl))
    /\ ctorPc' = "urlread"
    /\ UNCHANGED <<envKey, envUrl, newRet, client, call>>
    /\ UNCHANGED timeVars

\* NewDatasetClient, the return: the key is read from the environment again
NewDatasetClientReturn ==
    /\ ctorPc = "urlread"
    /\ client' = baseClient(Getenv(envKey), ctorUrl \o "/datasets")
    /\ newRet' = CtorRet(client', NilErr)
    /\ ctorPc' = "idle"
    /\ ctorUrl' = ""
    /\ UNCHANGED <<envKey, envUrl, call>>
    /\ UNCHANGED timeVars

\* a public operation op is called with args on the client and ends as outcome
Invoke(op, args, outcome) ==
    /\ call' = [op |-> op, args |-> args] @@ outcome
    /\ UNCHANGED <<envKey, envUrl, ctorPc, ctorUrl, newRet, client>>
    /\ UNCHANGED timeVars

\* the caller is sequential: it holds a client and no result of an earlier call
Callable == ctorPc = "idle" /\ ~client.isNil /\ call = NoCall

\* the caller has looked at what the last call returned and goes on
ResultTaken ==
    /\ call # NoCall
    /\ call' = NoCall
    /\ UNCHANGED <<envKey, envUrl, ctorPc, ctorUrl, newRet, client>>
    /\ UNCHANGED timeVars

CreateDataset ==
    /\ Callable
    /\ \E input \in PointerInputs, out \in Outcomes :
          Invoke("CreateDataset", [input |-> input], CreateDatasetCall(client, input, out))

UploadCSV ==
    /\ Callable
    /\ \E input \in CSVInputs, out \in Outcomes :
          Invoke("UploadCSV", [input |-> input], UploadCSVCall(client, input, out))

UploadExperiment ==
    /\ Callable
    /\ \E input \in PointerInputs, out \in Outcomes :
          Invoke("UploadExperiment", [input |-> input],
                 UploadExperimentCall(client, input, out))

ReadDataset ==
    /\ Callable
    /\ \E id \in Ids, out \in Outcomes :
          Invoke("ReadDataset", [id |-> id], ReadDatasetCall(client, id, out))

DownloadDatasetCsv ==
    /\ Callable
    /\ \E id \in Ids, out \in Outcomes :
          Invoke("DownloadDatasetCsv", [id |-> id], DownloadDatasetCsvCall(client, id, out))

GetExamples ==
    /\ Callable
    /\ \E id \in Ids, offset \in OffsetChoices, out \in Outcomes :
          Invoke("GetExamples", [id |-> id, offset |-> offset],
                 GetExamplesCall(client, id, offset, out))

CreateExample ==
    /\ Callable
    /\ \E input \in ValueInputs, out \in Outcomes :
          Invoke("CreateExample", [input |-> input], CreateExampleCall(client, input, out))

CreateExamples ==
    /\ Callable
    /\ \E input \in SliceInputs, out \in Outcomes :
          Invoke("CreateExamples", [input |-> input], CreateExamplesCall(client, input, out))

GetExamplesWithRuns ==
    /\ Callable
    /\ \E id \in Ids, out \in Outcomes :
          Invoke("GetExamplesWithRuns", [id |-> id], GetExamplesWithRunsCall(client, id, out))

CreateComparativeExperiment ==
    /\ Callable
    /\ \E input \in PointerInputs, out \in Outcomes :
          Invoke("CreateComparativeExperiment", [input |-> input],
                 CreateComparativeExperimentCall(client, input, out))

ReadComparitiveExperiment ==
    /\ Callable
    /\ \E id \in Ids, id2 \in Ids, out \in Outcomes :
          Invoke("ReadComparitiveExperiment", [id |-> id, id2 |-> id2],
                 ReadComparitiveExperimentCall(client, id, id2, out))

QueryRuns ==
    /\ Callable
    /\ \E ids \in ExperimentIdLists, isRoot \in BOOLEAN, qp \in QueryParamsInputs,
          out \in Outcomes :
          Invoke("QueryRuns", [ids |-> ids, isRoot |-> isRoot, queryParams |-> qp],
                 QueryRunsCall(client, ids, isRoot, qp, out))

CreateFeedback ==
    /\ Callable
    /\ \E input \in FeedbackInputs, out \in Outcomes :
          Invoke("CreateFeedback", [input |-> input], CreateFeedbackCall(client, input, out))

CreateTracerSession ==
    /\ Callable
    /\ \E input \in TracerSessionRequestInputs, out \in Outcomes :
          Invoke("CreateTracerSession", [input |-> input],
                 CreateTracerSessionCall(client, input, out))

UpdateTracerSession ==
    /\ Callable
    /\ \E id \in Ids, input \in TracerSessionUpdateInputs, out \in Outcomes :
          Invoke("UpdateTracerSession", [id |-> id, input |-> input],
                 UpdateTracerSessionCall(client, id, input, out))

Next ==
    \/ SetenvKey
    \/ SetenvUrl
    \/ NewDatasetClientCheckKey
    \/ NewDatasetClientReadUrl
    \/ NewDatasetClientReturn
    \/ CreateDataset
    \/ UploadCSV
    \/ UploadExperiment
    \/ ReadDataset
    \/ DownloadDatasetCsv
    \/ GetExamples
    \/ CreateExample
    \/ CreateExamples
    \/ GetExamplesWithRuns
    \/ CreateComparativeExperiment
    \/ ReadComparitiveExperiment
    \/ QueryRuns
    \/ CreateFeedback
    \/ CreateTracerSession
    \/ UpdateTracerSession
    \/ ResultTaken

Spec == Init /\ [][Next]_vars

\* the timestamp round trip alone
TimeSpec == Init /\ [][TimeNext]_vars

\* UnmarshalJSON alone, on any bytes and any target
DecodeSpec == Init /\ [][DecodeNext]_vars


(***************************************************************************)
(* Properties                                                              *)
(***************************************************************************)

ConfigurationErr == Err("configuration", "langsmith api key is required")

Called == call.op # "none"

Answered == Called /\ call.resp.kind = "http"

Is2xx(status) == status \in 200..299

\* the operations that return a typed result next to the error
ResultOps ==
    {"ReadDataset", "DownloadDatasetCsv", "GetExamples", "GetExamplesWithRuns",
     "ReadComparitiveExperiment", "QueryRuns"}

\* the operations that decode the response body into a typed result
DecodeOps == {"GetExamples", "GetExamplesWithRuns", "ReadComparitiveExperiment", "QueryRuns"}

\* the operations that expect no response body
NoBodyOps ==
    {"CreateDataset", "CreateExample", "CreateExamples", "CreateFeedback",
     "CreateTracerSession", "UpdateTracerSession", "UploadCSV", "UploadExperiment",
     "CreateComparativeExperiment"}

\* whether the body parses as the typed result of op
Parseable(op, body) ==
    CASE op \in {"GetExamples", "GetExamplesWithRuns"} -> UnmarshalExamples(body).status = "ok"
      [] op = "ReadComparitiveExperiment" ->
            UnmarshalComparativeExperiments(body).status = "ok"
      [] op = "QueryRuns" -> UnmarshalRunsResponse(body).status = "ok"
      [] OTHER -> TRUE

\* the call never got an encoded request body: encoding failed, or the request
\* object was missing
EncodingFailed ==
    CASE call.op = "UploadCSV" -> call.args.input.isNil
      [] call.op = "QueryRuns" -> call.args.queryParams.isNil
      [] call.op \in NoBodyOps -> ~call.args.input.isNil /\ ~call.args.input.encodable
      [] OTHER -> FALSE

\* the ids the call puts in its URL
UrlIds ==
    CASE call.op \in {"ReadDataset", "DownloadDatasetCsv", "GetExamples",
                      "GetExamplesWithRuns", "UpdateTracerSession"} -> {call.args.id}
      [] call.op = "ReadComparitiveExperiment" -> {call.args.id, call.args.id2}
      [] OTHER -> {}

\* http.NewRequest refuses the URL of the call
UrlRefused == \E id \in UrlIds : ContainsCTL(id)

\* the service root the client was constructed with: its baseUrl is root/datasets
ConfiguredRoot == SubSeq(client.baseUrl, 1, Len(client.baseUrl) - Len("/datasets"))

\* the operations table of the specification: method and path of each operation
TableMethod ==
    CASE call.op \in {"ReadDataset", "DownloadDatasetCsv", "GetExamples",
                      "ReadComparitiveExperiment"} -> "GET"
      [] call.op = "UpdateTracerSession" -> "PATCH"
      [] OTHER -> "POST"

TablePath ==
    CASE call.op = "CreateDataset" -> "/datasets"
      [] call.op = "UploadCSV" -> "/datasets/upload"
      [] call.op = "UploadExperiment" -> "/datasets/upload-experiment"
      [] call.op = "ReadDataset" -> "/datasets/" \o call.args.id
      [] call.op = "DownloadDatasetCsv" -> "/datasets/" \o call.args.id \o "/csv"
      [] call.op = "GetExamples" ->
            "/examples?dataset=" \o call.args.id \o "&offset=" \o FormatInt(call.args.offset)
      [] call.op = "CreateExample" -> "/examples"
      [] call.op = "CreateExamples" -> "/examples/bulk"
      [] call.op = "GetExamplesWithRuns" -> "/datasets/" \o call.args.id \o "/runs"
      [] call.op = "CreateComparativeExperiment" -> "/datasets/comparative"
      [] call.op = "ReadComparitiveExperiment" ->
            "/datasets/" \o call.args.id \o "/comparative?id=" \o call.args.id2
      [] call.op = "QueryRuns" -> "/runs/query"
      [] call.op = "CreateFeedback" -> "/feedback"
      [] call.op = "CreateTracerSession" -> "/sessions"
      [] call.op = "UpdateTracerSession" -> "/sessions/" \o call.args.id
      [] OTHER -> ""

\* C1: NewDatasetClient called while LANGSMITH_API_KEY is unset or empty
\* returns the configuration error and a nil client, and goes no further; a
\* client is returned only by a call whose key check saw a non-empty key; what
\* a call returns is a client or an error, never both and never neither.
C1_NoKeyNoClient ==
    [][/\ (ctorPc = "idle" /\ ctorPc' # "idle") => Getenv(envKey) # ""
       /\ (NewDatasetClientCheckKey /\ Getenv(envKey) = "")
             => newRet' = CtorRet(NoClient, ConfigurationErr) /\ client'.isNil
       /\ (newRet' # newRet /\ ~newRet'.client.isNil) => ctorPc = "urlread"
       /\ newRet'.returned => (newRet'.client.isNil <=> ~newRet'.err.isNil)]_vars

C1_Witness ==
    /\ ~envKey.set
    /\ newRet = CtorRet(NoClient, ConfigurationErr)
    /\ client.isNil

\* C2: when the transport answers with a status outside 200-299 and the body
\* {"detail": d}, the operation returns an error whose message is d, and no
\* result.
C2_RemoteErrorCarriesDetail ==
    (/\ Answered
     /\ ~Is2xx(call.resp.status)
     /\ call.resp.readOk
     /\ HasField(call.resp.body, "detail")
     /\ call.resp.body.fields["detail"].t = "str")
    => /\ ~call.aborted
       /\ ~call.err.isNil
       /\ call.err.msg = call.resp.body.fields["detail"].s
       /\ call.result.isNil

C2_Witness ==
    /\ call.op = "QueryRuns"
    /\ Answered
    /\ call.resp.status = 404
    /\ call.resp.body = DetailBody
    /\ call.err.msg = "not found"

\* C3: a decode-expecting operation answered with a 2xx whose body does not
\* parse as its typed result returns a decoding error and a nil result.
C3_BadBodyIsDecodingError ==
    (/\ Answered
     /\ call.op \in DecodeOps
     /\ Is2xx(call.resp.status)
     /\ call.resp.readOk
     /\ ~Parseable(call.op, call.resp.body))
    => /\ ~call.aborted
       /\ ~call.err.isNil
       /\ call.err.kind = "decoding"
       /\ call.result.isNil

\* C4: an operation that expects no response body returns no error on any
\* status in 200-299, whatever the body.
C4_NoBodyOpsAccept2xx ==
    (Answered /\ call.op \in NoBodyOps /\ Is2xx(call.resp.status))
    => ~call.aborted /\ call.err.isNil

C4_Witness ==
    /\ call.op = "CreateDataset"
    /\ Answered
    /\ call.resp.status = 201
    /\ call.resp.body = JEmpty
    /\ ~call.aborted
    /\ call.err.isNil

\* C5 as stated: exactly one request when the body was encoded, none when
\* encoding failed, and the error of a failed attempt is returned at once.
C5_OneRequestIfEncoded ==
    Called =>
       /\ Len(call.sent) = (IF EncodingFailed THEN 0 ELSE 1)
       /\ (call.resp.kind = "error" \/ (call.resp.kind = "http" /\ ~Is2xx(call.resp.status)))
             => ~call.aborted /\ ~call.err.isNil

\* C5 as amended: at most one request per call: exactly one when the body
\* was encoded and http.NewRequest accepted the URL, none when encoding
\* failed or the URL was refused; after a transport failure or a non-2xx
\* answer to that one request the error is returned at once.
C5_OneRequestIfBuilt ==
    Called =>
       /\ Len(call.sent) = (IF EncodingFailed \/ UrlRefused THEN 0 ELSE 1)
       /\ (UrlRefused /\ ~EncodingFailed) => ~call.aborted /\ ~call.err.isNil
       /\ (call.resp.kind = "error" \/ (call.resp.kind = "http" /\ ~Is2xx(call.resp.status)))
             => ~call.aborted /\ ~call.err.isNil /\ Len(call.sent) = 1

C5_Witness ==
    /\ call.op = "ReadDataset"
    /\ UrlRefused
    /\ call.sent = <<>>
    /\ ~call.err.isNil

\* C6: every call ends by returning either its result with no error or an
\* error with no result; none aborts.
C6_ResultOrError ==
    Called =>
       /\ ~call.aborted
       /\ call.op \in ResultOps => (call.err.isNil <=> ~call.result.isNil)
       /\ call.op \notin ResultOps => call.result.isNil

\* C7: every request goes to a URL that starts with the base URL the client
\* was constructed with.
C7_RequestsGoToConfiguredBase ==
    \A i \in 1..Len(call.sent) : HasPrefix(call.sent[i].url, ConfiguredRoot)

\* C8: every request carries the header x-api-key with the API key the client
\* captured at construction.
C8_ApiKeyHeader ==
    \A i \in 1..Len(call.sent) :
        /\ \E h \in call.sent[i].header : h[1] = "x-api-key"
        /\ HeaderGet(call.sent[i], "x-api-key") = client.APIKey

C8_Witness ==
    /\ call.op = "QueryRuns"
    /\ Len(call.sent) = 1
    /\ HeaderGet(call.sent[1], "x-api-key") = "key-A"

\* C9: every request uses the method and the path of the operations table,
\* relative to a service root, with the caller's ids and offset in it.
C9_MethodAndPath ==
    \A i \in 1..Len(call.sent) :
        /\ call.sent[i].method = TableMethod
        /\ \E root \in {BASE_URL, ConfiguredRoot} : call.sent[i].url = root \o TablePath

C9_Witness ==
    /\ call.op = "ReadComparitiveExperiment"
    /\ call.args.id = "ds-1"
    /\ call.args.id2 = "ex-1"
    /\ Len(call.sent) = 1
    /\ call.sent[1].method = "GET"
    /\ call.sent[1].url = ConfiguredRoot \o "/datasets/ds-1/comparative?id=ex-1"

\* two times are the same instant
SameInstant(a, b) == a.day = b.day /\ a.sod = b.sod /\ a.nsec = b.nsec

\* t.Truncate(time.Second)
TruncateToSecond(t) == [t EXCEPT !.nsec = 0]

\* C10: MarshalJSON followed by UnmarshalJSON returns the instant of the
\* timestamp truncated to the second.
C10_RoundTrip ==
    decoded.status # "none"
    => decoded.status = "ok" /\ SameInstant(decoded.t, TruncateToSecond(lt))

\* the operations whose request record is tried field by field
RecordOps == {"CreateFeedback", "CreateTracerSession", "UpdateTracerSession"}

\* sub occurs in s
Contains(s, sub) ==
    \E i \in 1..(Len(s) - Len(sub) + 1) : SubSeq(s, i, i + Len(sub) - 1) = sub

\* the value is absent or the zero value of its type
IsZeroValue(v) ==
    CASE v.kind = "string" -> v.s = ""
      [] v.kind = "struct" -> v.t = ZeroTime
      [] OTHER -> v.isNil

\* the call sent the encoding of a record given field by field
SentRecord ==
    /\ Called
    /\ call.op \in RecordOps
    /\ "fields" \in DOMAIN call.args.input
    /\ Len(call.sent) = 1

\* C11: in the JSON body sent for a request record, a field tagged omitempty
\* whose value is absent or zero does not appear, the optional timestamps
\* (created_at, start_time, end_time) included.
C11_OptionalOmitted ==
    SentRecord =>
        \A i \in 1..Len(call.args.input.fields) :
            (/\ call.args.input.fields[i].omitempty
             /\ IsZeroValue(call.args.input.fields[i].value))
            => ~Contains(call.sent[1].body.json,
                         "\"" \o call.args.input.fields[i].name \o "\":")

\* the values of the form fields called name, in the order they stand in the body
FieldValues(parts, name) ==
    LET sel == SelectSeq(parts, LAMBDA p : p.name = name)
    IN  [i \in 1..Len(sel) |-> sel[i].value]

\* C12: UploadCSV of a DatasetCSV with a non-empty InputKeys sends one
\* request whose multipart body holds one input_keys field per entry of
\* InputKeys and one output_keys field per entry of OutputKeys, in list
\* order with duplicates kept, and is the body ToMultiPart built.
C12_KeysInOrder ==
    (/\ Called
     /\ call.op = "UploadCSV"
     /\ ~call.args.input.isNil
     /\ call.args.input.InputKeys # <<>>)
    => /\ ~call.aborted
       /\ Len(call.sent) = 1
       /\ call.sent[1].body.kind = "multipart"
       /\ FieldValues(call.sent[1].body.parts, "input_keys") = call.args.input.InputKeys
       /\ FieldValues(call.sent[1].body.parts, "output_keys") = call.args.input.OutputKeys
       /\ call.sent[1].body.parts = ToMultiPart(call.args.input).body

C12_Witness ==
    /\ call.op = "UploadCSV"
    /\ call.args.input.InputKeys = <<"b", "a", "b">>
    /\ call.args.input.OutputKeys = <<"y", "x", "y">>
    /\ Len(call.sent) = 1
    /\ FieldValues(call.sent[1].body.parts, "input_keys") = <<"b", "a", "b">>
    /\ FieldValues(call.sent[1].body.parts, "output_keys") = <<"y", "x", "y">>

\* C13: whatever the environment does while NewDatasetClient runs, a client
\* it returns holds a non-empty API key.
C13_KeyResolvedOnce ==
    /\ (newRet.returned /\ ~newRet.client.isNil) => newRet.client.APIKey # ""
    /\ ~client.isNil => client.APIKey # ""

\* the bytes are a JSON string
IsJSONString(b) ==
    Len(b) >= 2 /\ SubSeq(b, 1, 1) = "\"" /\ SubSeq(b, Len(b), Len(b)) = "\""

\* the decode returned an error and left the target as it was
DecodeRefused == decoded.status = "err" /\ ~decoded.err.isNil /\ decoded.t = lt

\* the decode ended as the parse p of the first 19 characters says
DecodedAs(p) ==
    IF p.err.isNil THEN decoded.status = "ok" /\ decoded.t = p.t
    ELSE DecodeRefused

\* C14: UnmarshalJSON never aborts: a JSON string of 19 or more characters
\* decodes to the parse of its first 19 characters or to the parse error; a
\* shorter string, the empty string and null give a decode error and leave
\* the target unchanged.
C14_DecodeNeverAborts ==
    decoded.status # "none" =>
       /\ decoded.status # "panic"
       /\ (IsJSONString(wire.bytes) /\ Len(wire.bytes) - 2 >= 19)
             => DecodedAs(Parse(SubSeq(wire.bytes, 2, 20)))
       /\ (wire.bytes = "null" \/ (IsJSONString(wire.bytes) /\ Len(wire.bytes) - 2 < 19))
             => DecodeRefused

====
